---- MODULE Spec2Model ----
(***************************************************************************)
(* Model of the backend API of apps/backend/main.go: the feature-flag      *)
(* handlers with their in-memory flag cache (specification Spec), the user *)
(* handlers with the seeding endpoint (UserSpec), the handlers that decode *)
(* a request body (ValidationSpec) and the zone status endpoint with its   *)
(* health probes (ZoneSpec, and ZoneLiveSpec with fairness); and of the    *)
(* two front-end pieces that call it: the admin zone's flag management     *)
(* component (AdminSpec) and the main zone's flag provider (ProviderSpec). *)
(*                                                                         *)
(* Every handler runs in its own goroutine (net/http), so a handler is a   *)
(* sequence of steps, one per access to shared state: one SQL statement    *)
(* or one sync.Map operation.  Steps of different requests interleave      *)
(* freely.  Two request slots are modelled; a new request takes the lowest *)
(* free slot.  A statement either executes or fails with a connection      *)
(* error ("db"), the error branch every handler has.                       *)
(*                                                                         *)
(* Records carry (id, key, name, description, enabled) and (id, email,     *)
(* name); the createdAt/updatedAt timestamps are left out.                 *)
(***************************************************************************)
EXTENDS Integers, Sequences, FiniteSets, TLC

VARIABLES
    flags,       \* table feature_flags: set of FeatureFlag rows
    nextFlagId,  \* next value of the table's id sequence
    flagCache,   \* sync.Map: function from the stored keys to FeatureFlag
    users,       \* table users: set of User rows
    nextUserId,  \* next value of the users id sequence
    pc,          \* pc[p]: position of the handler running in slot p
    req,         \* req[p]: the request slot p is serving
    flag,        \* flag[p]: the handler's local `flag`
    found,       \* found[p]: the list handler's `flags` and those still to cache
    seed,        \* seed[p]: locals of seedDatabaseHandler
    started,     \* number of requests accepted so far
    dbErrors,    \* number of statements that failed with a connection error
    zone,        \* zone[p]: locals of zonesStatusHandler and its probes
    admin,       \* FeatureFlagManagement: the component's useState values
    calls,       \* calls[c]: a handler of the component awaiting its fetch
    adminLog,    \* handler calls of the component that have returned
    provider,    \* FeatureFlagProvider: the provider's useState values
    fetches,     \* fetchFlags calls of the provider awaiting their fetch
    polls,       \* outcomes of the provider's fetches, as they completed
    hist         \* completed requests with their responses, in order

vars == <<flags, nextFlagId, flagCache, users, nextUserId, pc, req, flag,
          found, seed, started, dbErrors, zone, admin, calls, adminLog,
          provider, fetches, polls, hist>>

flagVars == <<flags, nextFlagId, flagCache, flag, found>>
userVars == <<users, nextUserId, seed>>
zoneVars == <<zone>>
adminVars == <<admin, calls, adminLog>>
providerVars == <<provider, fetches, polls>>
uiVars == <<adminVars, providerVars>>
backendVars == <<flagVars, userVars, zoneVars, pc, req, started, dbErrors,
                 hist>>

(***************************************************************************)
(* Bounds and input domains                                                *)
(***************************************************************************)
MaxFlagReqs == 2
MaxUserReqs == 2
MaxDbErrors == 1
MaxZoneReqs == 2

Procs == {1, 2}
Keys == {"k1", "k2"}

Max(S) == CHOOSE x \in S : \A y \in S : y <= x

(***************************************************************************)
(* FeatureFlag                                                             *)
(***************************************************************************)
FeatureFlag(id, key, name, description, enabled) ==
    [id |-> id, key |-> key, name |-> name, description |-> description,
     enabled |-> enabled]

\* Go's zero value of the struct: `var flag FeatureFlag`
ZeroFlag == FeatureFlag(0, "", "", "", FALSE)

FlagColumns == {"key", "name", "description", "enabled"}

\* A JSON body: whether json.Decode accepts it, the fields it supplies and
\* their values.
Body(fields, key, name, description, enabled) ==
    [decoded |-> TRUE, fields |-> fields,
     vals |-> FeatureFlag(0, key, name, description, enabled)]

NoBody == Body({}, "", "", "", FALSE)

\* A body json.Decode returns an error for (malformed JSON, a value of the
\* wrong type, no body at all); the target keeps its zero value.
UndecodableBody == [NoBody EXCEPT !.decoded = FALSE]

\* Bodies of POST /api/feature-flags: decoded into a FeatureFlag, a field
\* the body leaves out keeps its zero value.
CreateBodies ==
    { Body({"key", "name", "description"}, k, "n1", "d1", FALSE) : k \in Keys }
    \cup { Body(FlagColumns, k, "n1", "d1", TRUE) : k \in Keys }
    \cup { Body({"name"}, "", "n1", "", FALSE),
           Body({"key"}, "k1", "", "", FALSE),
           UndecodableBody }

\* Bodies of PATCH /api/feature-flags/{key}: a map of columns to values.
\* A column may be given its zero value ({"name": ""}).
PatchBodies ==
    { UndecodableBody,
      Body({"name"}, "", "", "", FALSE),
      Body({}, "", "", "", FALSE),
      Body({"enabled"}, "", "", "", TRUE),
      Body({"enabled"}, "", "", "", FALSE),
      Body({"name"}, "", "n2", "", FALSE),
      Body({"description"}, "", "", "d2", FALSE),
      Body({"key"}, "k2", "", "", FALSE),
      Body({"name", "enabled"}, "", "n2", "", TRUE) }

\* The datastore as main() finds it: the table outlives the process, the
\* cache does not.
InitFlagTables ==
    { {},
      {FeatureFlag(1, "k1", "n1", "d1", FALSE)},
      {FeatureFlag(1, "k1", "n1", "d1", FALSE),
       FeatureFlag(2, "k2", "n1", "d1", TRUE)} }

(***************************************************************************)
(* SQL statements on feature_flags                                         *)
(***************************************************************************)
\* SELECT * FROM feature_flags WHERE key = ? ORDER BY id LIMIT 1
RowsByKey(tbl, key) == { f \in tbl : f.key = key }

FirstByKey(tbl, key) ==
    LET rows == RowsByKey(tbl, key)
    IN  CHOOSE f \in rows : \A g \in rows : f.id <= g.id

\* First(&flag) on a struct whose primary key is set adds `id = flag.id`
ReloadRows(tbl, key, id) ==
    { f \in RowsByKey(tbl, key) : id = 0 \/ f.id = id }

\* Faulty variant of KeyTaken: the column has no unique index.
KeyTakenNever(tbl, key, exceptId) == FALSE

\* uniqueIndex on key
KeyTaken(tbl, key, exceptId) ==
    \E f \in tbl : f.key = key /\ f.id # exceptId

\* Faulty variant of CacheHit: the cache never answers.
CacheHitNever(cache, key) == FALSE

\* Faulty variant of ApplyUpdates: every column is written from the body, as a
\* whole-struct Save would, so a column the body leaves out is zeroed.
ApplyUpdatesAllColumns(f, updates) ==
    [updates.vals EXCEPT !.id = f.id]

\* Updates(map): the columns of the map are written, the others kept; the
\* same assignment is made to the struct in memory.
ApplyUpdates(f, updates) ==
    [id |-> f.id,
     key |-> IF "key" \in updates.fields THEN updates.vals.key ELSE f.key,
     name |-> IF "name" \in updates.fields THEN updates.vals.name ELSE f.name,
     description |-> IF "description" \in updates.fields
                     THEN updates.vals.description ELSE f.description,
     enabled |-> IF "enabled" \in updates.fields
                 THEN updates.vals.enabled ELSE f.enabled]

\* UPDATE feature_flags SET ... WHERE id = ?
UpdateRows(tbl, id, updates) ==
    { IF f.id = id THEN ApplyUpdates(f, updates) ELSE f : f \in tbl }

\* flagCache.Load / flagCache.Store / flagCache.Delete
CacheHit(cache, key) == key \in DOMAIN cache

CacheLoad(cache, key) == cache[key]

CacheStore(cache, key, f) ==
    [k \in DOMAIN cache \cup {key} |-> IF k = key THEN f ELSE cache[k]]

CacheDelete(cache, key) ==
    [k \in DOMAIN cache \ {key} |-> cache[k]]

(***************************************************************************)
(* Requests and responses                                                  *)
(***************************************************************************)
Now == started + Len(hist)

\* What the datastore and the cache hold, for the record of a request.
FlagState(tbl, cache) == [flags |-> tbl, cache |-> cache]

Request(op, key, body) ==
    [op |-> op, key |-> key, body |-> body, t0 |-> Now + 1,
     before |-> FlagState(flags, flagCache)]

NoReq == [op |-> "none", key |-> "", body |-> NoBody, t0 |-> 0,
          before |-> FlagState({}, << >>)]

\* A new request is accepted into the lowest free slot.
CanStart(p, max) ==
    /\ pc[p] = "idle"
    /\ started < max
    /\ \A q \in Procs : q < p => pc[q] # "idle"

\* The handler of slot p, serving r, writes its response and returns.  t0 and
\* t1 number the arrival and the return among all arrivals and returns (a
\* request answered in its first step arrives and returns in that step).
Respond(p, r, status, f, list, err) ==
    /\ hist' = Append(hist, [op |-> r.op, key |-> r.key, body |-> r.body,
                             status |-> status, flag |-> f, flags |-> list,
                             err |-> err, t0 |-> r.t0,
                             t1 |-> IF pc[p] = "idle" THEN Now + 2
                                    ELSE Now + 1,
                             before |-> r.before,
                             after |-> FlagState(flags', flagCache')])
    /\ pc' = [pc EXCEPT ![p] = "idle"]
    /\ req' = [req EXCEPT ![p] = NoReq]

Goto(p, r, label) ==
    /\ pc' = [pc EXCEPT ![p] = label]
    /\ req' = [req EXCEPT ![p] = r]
    /\ hist' = hist

Begin(p) == started' = started + 1
Continue(p) == started' = started

\* The statement fails with a connection error / the statement executes.
DbFails == dbErrors < MaxDbErrors /\ dbErrors' = dbErrors + 1
DbExecutes == dbErrors' = dbErrors

(***************************************************************************)
(* GET /api/feature-flags/{key}                                            *)
(***************************************************************************)
\* flagCache.Load(key): a hit is answered from the cache
getFeatureFlagHandler_Load(p) ==
    \E key \in Keys :
        LET r == Request("get", key, NoBody) IN
        /\ CanStart(p, MaxFlagReqs)
        /\ Begin(p)
        /\ UNCHANGED <<flagVars, userVars, zoneVars, uiVars, dbErrors>>
        /\ IF CacheHit(flagCache, key)
           THEN Respond(p, r, 200, CacheLoad(flagCache, key), {}, "")
           ELSE Goto(p, r, "get_query")

\* db.Where("key = ?", key).First(&flag)
getFeatureFlagHandler_Query(p) ==
    /\ pc[p] = "get_query"
    /\ Continue(p)
    /\ UNCHANGED <<flags, nextFlagId, flagCache, found, userVars, zoneVars, uiVars>>
    /\ \/ /\ DbExecutes
          /\ RowsByKey(flags, req[p].key) # {}
          /\ flag' = [flag EXCEPT ![p] = FirstByKey(flags, req[p].key)]
          /\ Goto(p, req[p], "get_store")
       \/ /\ DbExecutes
          /\ RowsByKey(flags, req[p].key) = {}
          /\ Respond(p, req[p], 404, ZeroFlag, {}, "notfound")
          /\ flag' = flag
       \/ /\ DbFails
          /\ Respond(p, req[p], 500, ZeroFlag, {}, "db")
          /\ flag' = flag

\* flagCache.Store(key, flag), then the response
getFeatureFlagHandler_Store(p) ==
    /\ pc[p] = "get_store"
    /\ Continue(p)
    /\ flagCache' = CacheStore(flagCache, req[p].key, flag[p])
    /\ flag' = [flag EXCEPT ![p] = ZeroFlag]
    /\ UNCHANGED <<flags, nextFlagId, found, userVars, zoneVars, uiVars, dbErrors>>
    /\ Respond(p, req[p], 200, flag[p], {}, "")

getFeatureFlagHandler(p) ==
    \/ getFeatureFlagHandler_Load(p)
    \/ getFeatureFlagHandler_Query(p)
    \/ getFeatureFlagHandler_Store(p)

(***************************************************************************)
(* GET /api/feature-flags                                                  *)
(***************************************************************************)
NoneFound == [all |-> {}, left |-> {}]

\* Faulty variant of FindAll: the query is cut to its first row.
FindAllFirst(tbl) ==
    IF tbl = {} THEN {} ELSE {CHOOSE f \in tbl : \A g \in tbl : f.id <= g.id}

\* SELECT * FROM feature_flags
FindAll(tbl) == tbl

\* db.Find(&flags)
getFeatureFlagsHandler_Find(p) ==
    LET r == Request("list", "", NoBody) IN
    /\ CanStart(p, MaxFlagReqs)
    /\ Begin(p)
    /\ UNCHANGED <<flags, nextFlagId, flagCache, flag, userVars, zoneVars, uiVars>>
    /\ \/ /\ DbExecutes
          /\ flags # {}
          /\ found' = [found EXCEPT ![p] = [all |-> FindAll(flags),
                                            left |-> FindAll(flags)]]
          /\ Goto(p, r, "list_store")
       \/ /\ DbExecutes
          /\ flags = {}
          /\ Respond(p, r, 200, ZeroFlag, {}, "")
          /\ found' = found
       \/ /\ DbFails
          /\ Respond(p, r, 500, ZeroFlag, {}, "db")
          /\ found' = found

\* for _, flag := range flags { flagCache.Store(flag.Key, flag) }: one Store
\* per step (the rows come in no stated order), the response after the last
getFeatureFlagsHandler_Store(p) ==
    /\ pc[p] = "list_store"
    /\ Continue(p)
    /\ UNCHANGED <<flags, nextFlagId, flag, userVars, zoneVars, uiVars, dbErrors>>
    /\ \E f \in found[p].left :
        /\ flagCache' = CacheStore(flagCache, f.key, f)
        /\ IF found[p].left = {f}
           THEN /\ Respond(p, req[p], 200, ZeroFlag, found[p].all, "")
                /\ found' = [found EXCEPT ![p] = NoneFound]
           ELSE /\ Goto(p, req[p], "list_store")
                /\ found' = [found EXCEPT ![p].left = @ \ {f}]

getFeatureFlagsHandler(p) ==
    \/ getFeatureFlagsHandler_Find(p)
    \/ getFeatureFlagsHandler_Store(p)

(***************************************************************************)
(* POST /api/feature-flags                                                 *)
(***************************************************************************)
\* Faulty variant of CreatedFlag: the insert forces enabled to false.
CreatedFlagDisabled(body, id) ==
    [body.vals EXCEPT !.id = id, !.enabled = FALSE]

\* The row db.Create(&flag) inserts: the decoded struct with the next id.
\* A zero field takes the column default (`default:false`), a supplied value
\* is inserted as it is.
CreatedFlag(body, id) == [body.vals EXCEPT !.id = id]

\* The Decode error and `if flag.Key == "" || flag.Name == ""`
CreateRejects(body) ==
    ~body.decoded \/ body.vals.key = "" \/ body.vals.name = ""

\* "Invalid request body" / "... are required"
RejectedAs(body) == IF body.decoded THEN "invalid" ELSE "undecodable"

\* Decode, validation and db.Create(&flag); the insert takes its id from the
\* sequence, also when the unique index then rejects the row
createFeatureFlagHandler_Create(p) ==
    \E body \in CreateBodies :
        LET r == Request("create", body.vals.key, body) IN
        /\ CanStart(p, MaxFlagReqs)
        /\ Begin(p)
        /\ UNCHANGED <<flagCache, found, userVars, zoneVars, uiVars>>
        /\ \/ /\ CreateRejects(body)
              /\ UNCHANGED <<flags, nextFlagId, flag, dbErrors>>
              /\ Respond(p, r, 400, ZeroFlag, {}, RejectedAs(body))
           \/ /\ ~CreateRejects(body)
              /\ DbExecutes
              /\ KeyTaken(flags, body.vals.key, 0)
              /\ nextFlagId' = nextFlagId + 1
              /\ UNCHANGED <<flags, flag>>
              /\ Respond(p, r, 500, ZeroFlag, {}, "duplicate")
           \/ /\ ~CreateRejects(body)
              /\ DbExecutes
              /\ ~KeyTaken(flags, body.vals.key, 0)
              /\ flags' = flags \cup {CreatedFlag(body, nextFlagId)}
              /\ nextFlagId' = nextFlagId + 1
              /\ flag' = [flag EXCEPT ![p] = CreatedFlag(body, nextFlagId)]
              /\ Goto(p, r, "create_store")
           \/ /\ ~CreateRejects(body)
              /\ DbFails
              /\ UNCHANGED <<flags, nextFlagId, flag>>
              /\ Respond(p, r, 500, ZeroFlag, {}, "db")

\* flagCache.Store(flag.Key, flag), then 201
createFeatureFlagHandler_Store(p) ==
    /\ pc[p] = "create_store"
    /\ Continue(p)
    /\ flagCache' = CacheStore(flagCache, flag[p].key, flag[p])
    /\ flag' = [flag EXCEPT ![p] = ZeroFlag]
    /\ UNCHANGED <<flags, nextFlagId, found, userVars, zoneVars, uiVars, dbErrors>>
    /\ Respond(p, req[p], 201, flag[p], {}, "")

createFeatureFlagHandler(p) ==
    \/ createFeatureFlagHandler_Create(p)
    \/ createFeatureFlagHandler_Store(p)

(***************************************************************************)
(* PATCH /api/feature-flags/{key}                                          *)
(***************************************************************************)
\* Faulty variant of updateFeatureFlagHandler_First: a key the datastore does
\* not have is also dropped from the cache.
updateFeatureFlagHandler_FirstEvicts(p) ==
    \E key \in Keys, updates \in PatchBodies :
        LET r == Request("update", key, updates) IN
        /\ CanStart(p, MaxFlagReqs)
        /\ Begin(p)
        /\ UNCHANGED <<flags, nextFlagId, found, userVars, zoneVars, uiVars>>
        /\ \/ /\ ~updates.decoded
              /\ UNCHANGED <<flag, flagCache, dbErrors>>
              /\ Respond(p, r, 400, ZeroFlag, {}, "undecodable")
           \/ /\ updates.decoded
              /\ DbExecutes
              /\ RowsByKey(flags, key) # {}
              /\ flag' = [flag EXCEPT ![p] = FirstByKey(flags, key)]
              /\ flagCache' = flagCache
              /\ Goto(p, r, "update_updates")
           \/ /\ updates.decoded
              /\ DbExecutes
              /\ RowsByKey(flags, key) = {}
              /\ flagCache' = CacheDelete(flagCache, key)
              /\ Respond(p, r, 404, ZeroFlag, {}, "notfound")
              /\ flag' = flag
           \/ /\ updates.decoded
              /\ DbFails
              /\ flagCache' = flagCache
              /\ Respond(p, r, 500, ZeroFlag, {}, "db")
              /\ flag' = flag

\* Decode, then db.Where("key = ?", key).First(&flag)
updateFeatureFlagHandler_First(p) ==
    \E key \in Keys, updates \in PatchBodies :
        LET r == Request("update", key, updates) IN
        /\ CanStart(p, MaxFlagReqs)
        /\ Begin(p)
        /\ UNCHANGED <<flags, nextFlagId, flagCache, found, userVars, zoneVars, uiVars>>
        /\ \/ /\ ~updates.decoded
              /\ UNCHANGED <<flag, dbErrors>>
              /\ Respond(p, r, 400, ZeroFlag, {}, "undecodable")
           \/ /\ updates.decoded
              /\ DbExecutes
              /\ RowsByKey(flags, key) # {}
              /\ flag' = [flag EXCEPT ![p] = FirstByKey(flags, key)]
              /\ Goto(p, r, "update_updates")
           \/ /\ updates.decoded
              /\ DbExecutes
              /\ RowsByKey(flags, key) = {}
              /\ Respond(p, r, 404, ZeroFlag, {}, "notfound")
              /\ flag' = flag
           \/ /\ updates.decoded
              /\ DbFails
              /\ Respond(p, r, 500, ZeroFlag, {}, "db")
              /\ flag' = flag

\* The UPDATE would give its row the key of another row.
UpdateViolatesKey(tbl, id, updates) ==
    /\ "key" \in updates.fields
    /\ \E f \in tbl : f.id = id
    /\ KeyTaken(tbl, updates.vals.key, id)

\* Faulty variant of updateFeatureFlagHandler_Updates: the struct read by the
\* lookup is changed and saved whole, every column written back.
updateFeatureFlagHandler_Save(p) ==
    /\ pc[p] = "update_updates"
    /\ Continue(p)
    /\ UNCHANGED <<nextFlagId, flagCache, found, userVars, zoneVars, uiVars>>
    /\ \/ /\ DbExecutes
          /\ UpdateViolatesKey(flags, flag[p].id, req[p].body)
          /\ UNCHANGED <<flags, flag>>
          /\ Respond(p, req[p], 500, ZeroFlag, {}, "duplicate")
       \/ /\ DbExecutes
          /\ ~UpdateViolatesKey(flags, flag[p].id, req[p].body)
          /\ flags' = { IF f.id = flag[p].id
                        THEN ApplyUpdates(flag[p], req[p].body) ELSE f :
                        f \in flags }
          /\ flag' = [flag EXCEPT ![p] = ApplyUpdates(@, req[p].body)]
          /\ Goto(p, req[p], "update_reload")
       \/ /\ DbFails
          /\ UNCHANGED <<flags, flag>>
          /\ Respond(p, req[p], 500, ZeroFlag, {}, "db")

\* db.Model(&flag).Updates(updates): UPDATE ... WHERE id = flag.ID; the
\* struct is assigned the same values; no row matching is no error
updateFeatureFlagHandler_Updates(p) ==
    /\ pc[p] = "update_updates"
    /\ Continue(p)
    /\ UNCHANGED <<nextFlagId, flagCache, found, userVars, zoneVars, uiVars>>
    /\ \/ /\ DbExecutes
          /\ UpdateViolatesKey(flags, flag[p].id, req[p].body)
          /\ UNCHANGED <<flags, flag>>
          /\ Respond(p, req[p], 500, ZeroFlag, {}, "duplicate")
       \/ /\ DbExecutes
          /\ ~UpdateViolatesKey(flags, flag[p].id, req[p].body)
          /\ flags' = UpdateRows(flags, flag[p].id, req[p].body)
          /\ flag' = [flag EXCEPT ![p] = ApplyUpdates(@, req[p].body)]
          /\ Goto(p, req[p], "update_reload")
       \/ /\ DbFails
          /\ UNCHANGED <<flags, flag>>
          /\ Respond(p, req[p], 500, ZeroFlag, {}, "db")

\* db.Where("key = ?", key).First(&flag): the error is not looked at, so
\* when no row is read the struct keeps what Updates assigned
updateFeatureFlagHandler_Reload(p) ==
    /\ pc[p] = "update_reload"
    /\ Continue(p)
    /\ UNCHANGED <<flags, nextFlagId, flagCache, found, userVars, zoneVars, uiVars>>
    /\ \/ /\ DbExecutes
          /\ ReloadRows(flags, req[p].key, flag[p].id) # {}
          /\ flag' = [flag EXCEPT ![p] =
                 CHOOSE f \in ReloadRows(flags, req[p].key, flag[p].id) : TRUE]
       \/ /\ DbExecutes
          /\ ReloadRows(flags, req[p].key, flag[p].id) = {}
          /\ flag' = flag
       \/ /\ DbFails
          /\ flag' = flag
    /\ Goto(p, req[p], "update_store")

\* flagCache.Store(key, flag), then 200
updateFeatureFlagHandler_Store(p) ==
    /\ pc[p] = "update_store"
    /\ Continue(p)
    /\ flagCache' = CacheStore(flagCache, req[p].key, flag[p])
    /\ flag' = [flag EXCEPT ![p] = ZeroFlag]
    /\ UNCHANGED <<flags, nextFlagId, found, userVars, zoneVars, uiVars, dbErrors>>
    /\ Respond(p, req[p], 200, flag[p], {}, "")

updateFeatureFlagHandler(p) ==
    \/ updateFeatureFlagHandler_First(p)
    \/ updateFeatureFlagHandler_Updates(p)
    \/ updateFeatureFlagHandler_Reload(p)
    \/ updateFeatureFlagHandler_Store(p)

(***************************************************************************)
(* DELETE /api/feature-flags/{key}                                         *)
(***************************************************************************)
\* Faulty variant of deleteFeatureFlagHandler_Delete: the cache entry is
\* removed first, before the outcome of the DELETE statement is known.
deleteFeatureFlagHandler_CacheFirst(p) ==
    \E key \in Keys :
        LET r == Request("delete", key, NoBody) IN
        /\ CanStart(p, MaxFlagReqs)
        /\ Begin(p)
        /\ flagCache' = CacheDelete(flagCache, key)
        /\ UNCHANGED <<nextFlagId, flag, found, userVars, zoneVars, uiVars>>
        /\ \/ /\ DbExecutes
              /\ RowsByKey(flags, key) # {}
              /\ flags' = flags \ RowsByKey(flags, key)
              /\ Goto(p, r, "delete_cache")
           \/ /\ DbExecutes
              /\ RowsByKey(flags, key) = {}
              /\ flags' = flags
              /\ Respond(p, r, 404, ZeroFlag, {}, "notfound")
           \/ /\ DbFails
              /\ flags' = flags
              /\ Respond(p, r, 500, ZeroFlag, {}, "db")

\* db.Where("key = ?", key).Delete(&FeatureFlag{})
deleteFeatureFlagHandler_Delete(p) ==
    \E key \in Keys :
        LET r == Request("delete", key, NoBody) IN
        /\ CanStart(p, MaxFlagReqs)
        /\ Begin(p)
        /\ UNCHANGED <<nextFlagId, flagCache, flag, found, userVars, zoneVars, uiVars>>
        /\ \/ /\ DbExecutes
              /\ RowsByKey(flags, key) # {}
              /\ flags' = flags \ RowsByKey(flags, key)
              /\ Goto(p, r, "delete_cache")
           \/ /\ DbExecutes
              /\ RowsByKey(flags, key) = {}
              /\ flags' = flags
              /\ Respond(p, r, 404, ZeroFlag, {}, "notfound")
           \/ /\ DbFails
              /\ flags' = flags
              /\ Respond(p, r, 500, ZeroFlag, {}, "db")

\* flagCache.Delete(key), then 200
deleteFeatureFlagHandler_Cache(p) ==
    /\ pc[p] = "delete_cache"
    /\ Continue(p)
    /\ flagCache' = CacheDelete(flagCache, req[p].key)
    /\ UNCHANGED <<flags, nextFlagId, flag, found, userVars, zoneVars, uiVars, dbErrors>>
    /\ Respond(p, req[p], 200, ZeroFlag, {}, "")

deleteFeatureFlagHandler(p) ==
    \/ deleteFeatureFlagHandler_Delete(p)
    \/ deleteFeatureFlagHandler_Cache(p)

(***************************************************************************)
(* User and the statements on users                                        *)
(***************************************************************************)
User(id, email, name) == [id |-> id, email |-> email, name |-> name]

ZeroUser == User(0, "", "")

\* A JSON body of POST /api/users: whether json.Decode accepts it and the User
\* it decodes to (zero when it does not).
UserBody(decoded, email, name) ==
    [decoded |-> decoded, id |-> 0, email |-> email, name |-> name]

\* sampleUsers of seedDatabaseHandler
NumSampleUsers == 5

sampleUsers ==
    << User(0, "alice@example.com", "Alice Johnson"),
       User(0, "bob@example.com", "Bob Smith"),
       User(0, "charlie@example.com", "Charlie Brown"),
       User(0, "diana@example.com", "Diana Prince"),
       User(0, "eve@example.com", "Eve Anderson") >>

SampleEmails == { sampleUsers[i].email : i \in 1..NumSampleUsers }

\* Bodies of POST /api/users
UserBodies ==
    { UserBody(TRUE, "alice@example.com", "Al"),
      UserBody(TRUE, "x@example.com", "X"),
      UserBody(TRUE, "", "X"),
      UserBody(TRUE, "x@example.com", ""),
      UserBody(FALSE, "", "") }

InitUserTables ==
    { {},
      {User(1, "alice@example.com", "Al")},
      { User(i, sampleUsers[i].email, sampleUsers[i].name) : i \in 1..4 } }

\* Faulty variant of EmailTaken: the column has no unique index.
EmailTakenNever(tbl, email) == FALSE

\* uniqueIndex on email
EmailTaken(tbl, email) == \E u \in tbl : u.email = email

\* Faulty variant of InsertUser: the insert replaces the row that holds the email.
InsertUserUpsert(tbl, row) ==
    { u \in tbl : u.email # row.email } \cup {row}

\* INSERT INTO users: the table after the statement, unchanged when the
\* unique index rejects the row
InsertUser(tbl, row) ==
    IF EmailTaken(tbl, row.email) THEN tbl ELSE tbl \cup {row}

\* Faulty variant of SeedLookup: a plain Create, no row is looked up first.
SeedLookupNone(tbl, user) == {}

\* db.Where("email = ?", user.Email).FirstOrCreate(&existingUser, user): the
\* struct given as condition adds its non-zero fields, so the lookup is
\* WHERE email = ? AND email = ? AND name = ? ORDER BY id LIMIT 1
SeedLookup(tbl, user) ==
    { u \in tbl : u.email = user.email /\ u.name = user.name }

(***************************************************************************)
(* Requests and responses of the user endpoints                            *)
(***************************************************************************)
UserRequest(op, id, user) ==
    [op |-> op, id |-> id, user |-> user, t0 |-> Now + 1, before |-> users]

NoSeed == [i |-> 0, createdCount |-> 0, skippedCount |-> 0, errors |-> << >>]

UserRespond(p, r, status, user, s, err) ==
    /\ hist' = Append(hist, [op |-> r.op, id |-> r.id, body |-> r.user,
                             status |-> status, user |-> user,
                             created |-> s.createdCount,
                             skipped |-> s.skippedCount,
                             errors |-> s.errors,
                             totalUsers |-> Len(sampleUsers),
                             errorCount |-> Len(s.errors),
                             err |-> err, t0 |-> r.t0,
                             t1 |-> IF pc[p] = "idle" THEN Now + 2
                                    ELSE Now + 1,
                             before |-> r.before, after |-> users'])
    /\ pc' = [pc EXCEPT ![p] = "idle"]
    /\ req' = [req EXCEPT ![p] = NoReq]

(***************************************************************************)
(* POST /api/users                                                         *)
(***************************************************************************)
\* Faulty variant of UserRejects: the body goes to the insert unvalidated.
UserRejectsNothing(user) == FALSE

\* The Decode error and `if user.Email == "" || user.Name == ""`
UserRejects(user) ==
    ~user.decoded \/ user.email = "" \/ user.name = ""

\* Decode, validation and db.Create(&user).  The insert takes its id from the
\* sequence, also when the unique index then rejects the row.
createUserHandler(p) ==
    \E user \in UserBodies :
        LET r == UserRequest("createUser", 0, user)
            row == User(nextUserId, user.email, user.name)
        IN
        /\ CanStart(p, MaxUserReqs)
        /\ Begin(p)
        /\ \/ /\ UserRejects(user)
              /\ UNCHANGED <<users, nextUserId, dbErrors>>
              /\ UserRespond(p, r, 400, ZeroUser, NoSeed, RejectedAs(user))
           \/ /\ ~UserRejects(user)
              /\ DbExecutes
              /\ EmailTaken(users, user.email)
              /\ users' = InsertUser(users, row)
              /\ nextUserId' = nextUserId + 1
              /\ UserRespond(p, r, 500, ZeroUser, NoSeed, "duplicate")
           \/ /\ ~UserRejects(user)
              /\ DbExecutes
              /\ ~EmailTaken(users, user.email)
              /\ users' = InsertUser(users, row)
              /\ nextUserId' = nextUserId + 1
              /\ UserRespond(p, r, 201, row, NoSeed, "")
           \/ /\ ~UserRejects(user)
              /\ DbFails
              /\ UNCHANGED <<users, nextUserId>>
              /\ UserRespond(p, r, 500, ZeroUser, NoSeed, "db")
        /\ UNCHANGED <<flagVars, zoneVars, uiVars, seed>>

(***************************************************************************)
(* DELETE /api/users/{id}                                                  *)
(***************************************************************************)
\* Faulty variant of DeleteById: the statement reports the row and leaves it.
DeleteByIdNone(tbl, id) == tbl

\* DELETE FROM users WHERE id = ?
DeleteById(tbl, id) == { u \in tbl : u.id # id }

\* Ids of DELETE /api/users/{id}: a stored id, an id no user was ever given,
\* or the id of an earlier DELETE.
DeleteIds ==
    { u.id : u \in users } \cup {nextUserId}
    \cup { hist[i].id : i \in { k \in 1..Len(hist) : hist[k].op = "deleteUser" } }

\* db.Delete(&User{}, id), then the test of RowsAffected
deleteUserHandler(p) ==
    \E id \in DeleteIds :
        LET r == UserRequest("deleteUser", id, ZeroUser) IN
        /\ CanStart(p, MaxUserReqs)
        /\ Begin(p)
        /\ \/ /\ DbExecutes
              /\ \E u \in users : u.id = id
              /\ users' = DeleteById(users, id)
              /\ UserRespond(p, r, 200, ZeroUser, NoSeed, "")
           \/ /\ DbExecutes
              /\ ~ \E u \in users : u.id = id
              /\ users' = users
              /\ UserRespond(p, r, 404, ZeroUser, NoSeed, "notfound")
           \/ /\ DbFails
              /\ users' = users
              /\ UserRespond(p, r, 500, ZeroUser, NoSeed, "db")
        /\ UNCHANGED <<flagVars, zoneVars, uiVars, nextUserId, seed>>

(***************************************************************************)
(* POST /api/seed                                                          *)
(***************************************************************************)
\* Faulty variant of SeedStatus: 500 only when every sample user gave an error.
SeedStatusAllFailed(s) ==
    IF Len(s.errors) = Len(sampleUsers) THEN 500 ELSE 200

\* if len(errors) > 0 && createdCount == 0 { 500 } else { 200 }
SeedStatus(s) ==
    IF Len(s.errors) > 0 /\ s.createdCount = 0 THEN 500 ELSE 200

\* Faulty variant of SeedError: the error ends the loop (break for continue).
SeedErrorBreak(s, kind) ==
    [s EXCEPT !.errors = Append(@, [i |-> s.i, kind |-> kind]),
              !.i = Len(sampleUsers) + 1]

\* errors = append(errors, ...); continue
SeedError(s, kind) ==
    [s EXCEPT !.errors = Append(@, [i |-> s.i, kind |-> kind]),
              !.i = @ + 1]

SeedCreated(s) == [s EXCEPT !.createdCount = @ + 1, !.i = @ + 1]

\* Faulty variant of SeedSkipped: a user found is not counted.
SeedSkippedUncounted(s) == [s EXCEPT !.i = @ + 1]

SeedSkipped(s) == [s EXCEPT !.skippedCount = @ + 1, !.i = @ + 1]

\* The loop goes on with the next sample user, or the handler responds.
SeedAdvance(p, r, s) ==
    IF s.i > Len(sampleUsers)
    THEN /\ UserRespond(p, r, SeedStatus(s), ZeroUser, s, "")
         /\ seed' = [seed EXCEPT ![p] = NoSeed]
         /\ started' = started
    ELSE /\ pc' = [pc EXCEPT ![p] = "seed_find"]
         /\ seed' = [seed EXCEPT ![p] = s]
         /\ UNCHANGED <<req, hist, started>>

\* The request arrives; the locals are set up.
seedDatabaseHandler_Begin(p) ==
    /\ CanStart(p, MaxUserReqs)
    /\ Begin(p)
    /\ pc' = [pc EXCEPT ![p] = "seed_find"]
    /\ req' = [req EXCEPT ![p] = UserRequest("seed", 0, ZeroUser)]
    /\ seed' = [seed EXCEPT ![p] = [NoSeed EXCEPT !.i = 1]]
    /\ UNCHANGED <<flagVars, zoneVars, uiVars, users, nextUserId, hist, dbErrors>>

\* FirstOrCreate, its SELECT: a row found is RowsAffected = 0
seedDatabaseHandler_Find(p) ==
    /\ pc[p] = "seed_find"
    /\ UNCHANGED <<flagVars, zoneVars, uiVars, users, nextUserId>>
    /\ \/ /\ DbExecutes
          /\ SeedLookup(users, sampleUsers[seed[p].i]) # {}
          /\ SeedAdvance(p, req[p], SeedSkipped(seed[p]))
       \/ /\ DbExecutes
          /\ SeedLookup(users, sampleUsers[seed[p].i]) = {}
          /\ pc' = [pc EXCEPT ![p] = "seed_create"]
          /\ UNCHANGED <<req, hist, started, seed>>
       \/ /\ DbFails
          /\ SeedAdvance(p, req[p], SeedError(seed[p], "db"))

\* FirstOrCreate, its INSERT
seedDatabaseHandler_Create(p) ==
    LET user == sampleUsers[seed[p].i]
        row == User(nextUserId, user.email, user.name)
    IN
    /\ pc[p] = "seed_create"
    /\ \/ /\ DbExecutes
          /\ EmailTaken(users, user.email)
          /\ users' = InsertUser(users, row)
          /\ nextUserId' = nextUserId + 1
          /\ SeedAdvance(p, req[p], SeedError(seed[p], "duplicate"))
       \/ /\ DbExecutes
          /\ ~EmailTaken(users, user.email)
          /\ users' = InsertUser(users, row)
          /\ nextUserId' = nextUserId + 1
          /\ SeedAdvance(p, req[p], SeedCreated(seed[p]))
       \/ /\ DbFails
          /\ UNCHANGED <<users, nextUserId>>
          /\ SeedAdvance(p, req[p], SeedError(seed[p], "db"))
    /\ UNCHANGED <<flagVars, zoneVars, uiVars>>

seedDatabaseHandler(p) ==
    \/ seedDatabaseHandler_Begin(p)
    \/ seedDatabaseHandler_Find(p)
    \/ seedDatabaseHandler_Create(p)

(***************************************************************************)
(* GET /api/zones/status                                                   *)
(***************************************************************************)
\* zoneMainURL and zoneAdminURL with their names, in the order probed
Zones ==
    << [name |-> "zone-main", url |-> "http://zone-main"],
       [name |-> "zone-admin", url |-> "http://zone-admin/admin"] >>

\* What client.Get(url) returns: a response with a status code, or an error.
HttpResponse(code) == [err |-> "", code |-> code]
TransportError(err) == [err |-> err, code |-> 0]

\* Outcomes the network hands back: a response of the zone, or a failure to
\* reach it.
Replies ==
    { HttpResponse(200), HttpResponse(503), HttpResponse(404),
      TransportError("connection refused"), TransportError("no such host") }

\* The error of a request the client's timer cut off.
TimeoutError == TransportError("Client.Timeout exceeded")

NoProbes == << >>

ZoneStatus(name, url, status, message) ==
    [name |-> name, url |-> url, status |-> status, message |-> message]

\* fmt's %d: the decimal digits of a non-negative integer
Digit(d) == <<"0", "1", "2", "3", "4", "5", "6", "7", "8", "9">>[d + 1]

RECURSIVE Itoa(_)
Itoa(n) == IF n < 10 THEN <<Digit(n)>> ELSE Itoa(n \div 10) \o <<Digit(n % 10)>>

\* Faulty variant of checkZoneHealth: every response other than 200 counts as
\* a failed connection.
checkZoneHealthStrict(z, outcome) ==
    IF outcome.err = "" /\ outcome.code = 200
    THEN ZoneStatus(z.name, z.url, "healthy", <<"Zone is responding">>)
    ELSE ZoneStatus(z.name, z.url, "unhealthy",
                    <<"Connection failed: ", outcome.err>>)

\* checkZoneHealth, from the outcome of client.Get on: the message is the
\* sequence of the pieces Sprintf puts together
checkZoneHealth(z, outcome) ==
    IF outcome.err # ""
    THEN ZoneStatus(z.name, z.url, "unhealthy",
                    <<"Connection failed: ", outcome.err>>)
    ELSE IF outcome.code = 200
    THEN ZoneStatus(z.name, z.url, "healthy", <<"Zone is responding">>)
    ELSE ZoneStatus(z.name, z.url, "degraded",
                    <<"HTTP ">> \o Itoa(outcome.code))

(***************************************************************************)
\* http.Client{Timeout: 5 * time.Second}, in seconds; 0 would mean no timeout
ClientTimeout == 5

\* Faulty variant of Client: no Timeout is set.
ClientNoTimeout == [Timeout |-> 0]

Client == [Timeout |-> ClientTimeout]

\* Faulty variant of HealthResponse: an unreachable zone is left out and makes
\* the envelope an error.
HealthResponseReachable(mainStatus, adminStatus) ==
    [status |-> IF "unhealthy" \in {mainStatus.status, adminStatus.status}
                THEN "error" ELSE "ok",
     zones |-> SelectSeq(<<mainStatus, adminStatus>>,
                         LAMBDA z : z.status # "unhealthy")]

\* HealthResponse{Status: "ok", Zones: []ZoneStatus{mainStatus, adminStatus}}
HealthResponse(mainStatus, adminStatus) ==
    [status |-> "ok", zones |-> <<mainStatus, adminStatus>>]

\* The request arrives and checkZoneHealth("zone-main", ...) issues its GET.
zonesStatusHandler_Begin(p) ==
    /\ CanStart(p, MaxZoneReqs)
    /\ Begin(p)
    /\ Goto(p, Request("zones", "", NoBody), "zone_probe")
    /\ zone' = [zone EXCEPT ![p] = NoProbes]
    /\ UNCHANGED <<flagVars, userVars, uiVars, dbErrors>>

\* client.Get of the zone being probed returns outcome.  checkZoneHealth
\* classifies it; after zone-main the probe of zone-admin is issued, after
\* zone-admin the response is encoded (no WriteHeader: 200).
ProbeEnds(p, outcome) ==
    LET k == Len(zone[p]) + 1
        done == Append(zone[p], [outcome |-> outcome,
                                 status |-> checkZoneHealth(Zones[k], outcome)])
    IN
    /\ pc[p] = "zone_probe"
    /\ Continue(p)
    /\ UNCHANGED <<flagVars, userVars, uiVars, dbErrors>>
    /\ IF k < Len(Zones)
       THEN /\ zone' = [zone EXCEPT ![p] = done]
            /\ UNCHANGED <<pc, req, hist>>
       ELSE /\ zone' = [zone EXCEPT ![p] = NoProbes]
            /\ hist' = Append(hist,
                   [op |-> "zones", status |-> 200,
                    body |-> HealthResponse(done[1].status, done[2].status),
                    probes |-> <<done[1].outcome, done[2].outcome>>,
                    t0 |-> req[p].t0, t1 |-> Now + 1])
            /\ pc' = [pc EXCEPT ![p] = "idle"]
            /\ req' = [req EXCEPT ![p] = NoReq]

\* The zone answers, or the network reports that it cannot be reached.
checkZoneHealth_Reply(p) == \E outcome \in Replies : ProbeEnds(p, outcome)

\* Neither happened within the client's Timeout: the client ends the request.
checkZoneHealth_Timeout(p) ==
    /\ Client.Timeout > 0
    /\ ProbeEnds(p, TimeoutError)

zonesStatusHandler(p) ==
    \/ zonesStatusHandler_Begin(p)
    \/ checkZoneHealth_Reply(p)
    \/ checkZoneHealth_Timeout(p)

(***************************************************************************)
(* The admin zone's FeatureFlagManagement component                        *)
(* (apps/zone-admin/app/components/FeatureFlagManagement.tsx).  A handler  *)
(* is an async function: it runs up to its `await fetch`, and runs on when *)
(* the fetch settles.  While it waits the component renders again and      *)
(* other handlers run; the waiting handler keeps the `flags` and `newFlag` *)
(* of the render it was called from.  What the backend answers is an       *)
(* input, drawn from the answers its handlers can give.                    *)
(***************************************************************************)
MaxAdminCalls == 3

\* A `string | null` state: null, or a message given as the pieces a
\* template literal joins.
Null == [isNull |-> TRUE, message |-> << >>]
Message(pieces) == [isNull |-> FALSE, message |-> pieces]

\* `await fetch(...)` gives a Response, whose `ok` is a status in 200..299,
\* or throws a TypeError when the request cannot be made.  Of a body the
\* model keeps its text (an error's) and the feature flags its JSON holds
\* (an array's elements, or the one object).
FetchResponse(status, text, json) ==
    [threw |-> FALSE, status |-> status, ok |-> status \in 200..299,
     text |-> text, json |-> json, message |-> << >>]
FetchError ==
    [threw |-> TRUE, status |-> 0, ok |-> FALSE, text |-> "", json |-> << >>,
     message |-> <<"Failed to fetch">>]

\* `HTTP error! status: ${response.status}`
HttpErrorMessage(status) == <<"HTTP error! status: ">> \o Itoa(status)

\* The JSON array of GET /api/feature-flags: the rows in id order.
RECURSIVE ById(_)
ById(tbl) ==
    IF tbl = {} THEN << >>
    ELSE LET f == CHOOSE g \in tbl : \A h \in tbl : g.id <= h.id
         IN <<f>> \o ById(tbl \ {f})

Elements(list) == { list[i] : i \in 1..Len(list) }

\* useState({ key: '', name: '', description: '' })
EmptyForm == [key |-> "", name |-> "", description |-> ""]

\* What the user can have typed into the form.
Forms ==
    { [key |-> "k2", name |-> "n2", description |-> "d2"],
      [key |-> "k1", name |-> "n1", description |-> ""],
      [key |-> "", name |-> "n1", description |-> ""] }

\* The component's state after its first render: the five useState values.
FeatureFlagManagement ==
    [flags |-> << >>, loading |-> TRUE, error |-> Null, creating |-> FALSE,
     newFlag |-> EmptyForm]

\* No handler is waiting in the slot.
NoCall ==
    [op |-> "none", key |-> "", currentState |-> FALSE, flags |-> << >>,
     newFlag |-> EmptyForm]

\* A handler called with (key, currentState) from the current render: it
\* closes over that render's `flags` and `newFlag`.
Call(op, key, currentState) ==
    [op |-> op, key |-> key, currentState |-> currentState,
     flags |-> admin.flags, newFlag |-> admin.newFlag]

AdminStarted ==
    Len(adminLog) + Cardinality({ c \in Procs : calls[c] # NoCall })

\* The page shows the form and the list (it is not `loading`), and a handler
\* may be called: it takes the lowest free slot.
CanCall(c) ==
    /\ ~admin.loading
    /\ calls[c] = NoCall
    /\ \A d \in Procs : d < c => calls[d] # NoCall
    /\ AdminStarted < MaxAdminCalls

Returned(c, ok, f) ==
    /\ calls' = [calls EXCEPT ![c] = NoCall]
    /\ adminLog' = Append(adminLog,
           [op |-> calls[c].op, key |-> calls[c].key, ok |-> ok, flag |-> f])

\* Answers to GET /api/feature-flags: the array, a database error, or no
\* connection.
ListReplies(tables) ==
    { FetchResponse(200, "", ById(t)) : t \in tables }
    \cup { FetchResponse(500, "Database error", << >>), FetchError }

\* fetchFlags, called once by the mount effect; the page shows "Loading"
\* until it has settled.
FeatureFlagManagement_fetchFlags ==
    /\ admin.loading
    /\ \E reply \in ListReplies(InitFlagTables) :
         admin' =
           IF reply.threw
           THEN [admin EXCEPT !.error = Message(reply.message),
                              !.loading = FALSE]
           ELSE IF ~reply.ok
           THEN [admin EXCEPT !.error = Message(HttpErrorMessage(reply.status)),
                              !.loading = FALSE]
           ELSE [admin EXCEPT !.flags = reply.json, !.error = Null,
                              !.loading = FALSE]
    /\ UNCHANGED <<calls, adminLog, providerVars, backendVars>>

\* onChange of the form's inputs (disabled while `creating`):
\* setNewFlag({ ...newFlag, <field>: e.target.value })
onChange ==
    /\ ~admin.loading
    /\ ~admin.creating
    /\ \E form \in Forms :
         /\ form # admin.newFlag
         /\ admin' = [admin EXCEPT !.newFlag = form]
    /\ UNCHANGED <<calls, adminLog, providerVars, backendVars>>

\* handleCreateFlag up to its fetch: the form is validated, `creating` is
\* set, the error is cleared and the POST is sent.  The submit button is
\* disabled while `creating`.
handleCreateFlag_Submit(c) ==
    /\ CanCall(c)
    /\ ~admin.creating
    /\ UNCHANGED <<adminLog, providerVars, backendVars>>
    /\ IF admin.newFlag.key = "" \/ admin.newFlag.name = ""
       THEN /\ admin' = [admin EXCEPT
                             !.error = Message(<<"Key and name are required">>)]
            /\ UNCHANGED calls
       ELSE /\ admin' = [admin EXCEPT !.creating = TRUE, !.error = Null]
            /\ calls' = [calls EXCEPT ![c] = Call("create", admin.newFlag.key,
                                                  FALSE)]

\* An id the datastore has not handed to the component before.
FreshId ==
    Max({0} \cup { f.id : f \in Elements(admin.flags) }
            \cup UNION { { f.id : f \in Elements(calls[c].flags) } :
                         c \in Procs }
            \cup { adminLog[i].flag.id : i \in 1..Len(adminLog) }) + 1

\* Answers to the POST: 201 with the created flag (the body asks for
\* `enabled: false`), a 500 with the handler's text or with none, or no
\* connection.
CreateReplies(call) ==
    { FetchResponse(201, "", <<FeatureFlag(FreshId, call.newFlag.key,
                                           call.newFlag.name,
                                           call.newFlag.description, FALSE)>>),
      FetchResponse(500, "Failed to create feature flag: duplicate key",
                    << >>),
      FetchResponse(500, "", << >>),
      FetchError }

\* handleCreateFlag after its fetch:
\* setFlags([...flags, createdFlag]); setNewFlag({...}) / setError(...);
\* finally setCreating(false).
handleCreateFlag_Reply(c) ==
    /\ calls[c].op = "create"
    /\ UNCHANGED <<providerVars, backendVars>>
    /\ \E reply \in CreateReplies(calls[c]) :
         IF reply.threw
         THEN /\ admin' = [admin EXCEPT !.error = Message(reply.message),
                                        !.creating = FALSE]
              /\ Returned(c, FALSE, ZeroFlag)
         ELSE IF ~reply.ok
         THEN /\ admin' = [admin EXCEPT
                   !.error = Message(IF reply.text # "" THEN <<reply.text>>
                                     ELSE <<"Failed to create feature flag">>),
                   !.creating = FALSE]
              /\ Returned(c, FALSE, ZeroFlag)
         ELSE /\ admin' = [admin EXCEPT
                   !.flags = Append(calls[c].flags, reply.json[1]),
                   !.newFlag = EmptyForm,
                   !.creating = FALSE]
              /\ Returned(c, TRUE, reply.json[1])

handleCreateFlag(c) ==
    \/ handleCreateFlag_Submit(c)
    \/ handleCreateFlag_Reply(c)

\* onClick={() => handleToggleFlag(flag.key, flag.enabled)} on a listed flag:
\* the PATCH with { enabled: !currentState } is sent.
handleToggleFlag_Click(c) ==
    /\ CanCall(c)
    /\ \E i \in 1..Len(admin.flags) :
         calls' = [calls EXCEPT ![c] = Call("toggle", admin.flags[i].key,
                                            admin.flags[i].enabled)]
    /\ UNCHANGED <<admin, adminLog, providerVars, backendVars>>

\* Answers to the PATCH: 200 with the flag and its new `enabled`, 404, or no
\* connection.
ToggleReplies(call) ==
    { FetchResponse(200, "", <<ApplyUpdates(f, Body({"enabled"}, "", "", "",
                                                    ~call.currentState))>>) :
        f \in { g \in Elements(call.flags) : g.key = call.key } }
    \cup { FetchResponse(404, "Feature flag not found", << >>), FetchError }

\* handleToggleFlag after its fetch:
\* setFlags(flags.map(flag => flag.key === key ? updatedFlag : flag))
handleToggleFlag_Reply(c) ==
    /\ calls[c].op = "toggle"
    /\ UNCHANGED <<providerVars, backendVars>>
    /\ \E reply \in ToggleReplies(calls[c]) :
         IF reply.threw
         THEN /\ admin' = [admin EXCEPT !.error = Message(reply.message)]
              /\ Returned(c, FALSE, ZeroFlag)
         ELSE IF ~reply.ok
         THEN /\ admin' = [admin EXCEPT
                   !.error = Message(<<"Failed to toggle feature flag">>)]
              /\ Returned(c, FALSE, ZeroFlag)
         ELSE /\ admin' = [admin EXCEPT
                   !.flags = [k \in 1..Len(calls[c].flags) |->
                                IF calls[c].flags[k].key = calls[c].key
                                THEN reply.json[1] ELSE calls[c].flags[k]]]
              /\ Returned(c, TRUE, reply.json[1])

handleToggleFlag(c) ==
    \/ handleToggleFlag_Click(c)
    \/ handleToggleFlag_Reply(c)

\* onClick={() => handleDeleteFlag(flag.key)} on a listed flag: the user
\* confirms and the DELETE is sent, or declines and nothing happens.
handleDeleteFlag_Click(c) ==
    /\ CanCall(c)
    /\ UNCHANGED <<admin, adminLog, providerVars, backendVars>>
    /\ \E i \in 1..Len(admin.flags), confirm \in BOOLEAN :
         IF confirm
         THEN calls' = [calls EXCEPT ![c] = Call("delete", admin.flags[i].key,
                                                 admin.flags[i].enabled)]
         ELSE UNCHANGED calls

\* Answers to the DELETE: 200, 404, or no connection.
DeleteReplies ==
    { FetchResponse(200, "Feature flag deleted successfully", << >>),
      FetchResponse(404, "Feature flag not found", << >>),
      FetchError }

\* handleDeleteFlag after its fetch:
\* setFlags(flags.filter(flag => flag.key !== key))
handleDeleteFlag_Reply(c) ==
    /\ calls[c].op = "delete"
    /\ UNCHANGED <<providerVars, backendVars>>
    /\ \E reply \in DeleteReplies :
         IF reply.threw
         THEN /\ admin' = [admin EXCEPT !.error = Message(reply.message)]
              /\ Returned(c, FALSE, ZeroFlag)
         ELSE IF ~reply.ok
         THEN /\ admin' = [admin EXCEPT
                   !.error = Message(<<"Failed to delete feature flag">>)]
              /\ Returned(c, FALSE, ZeroFlag)
         ELSE /\ admin' = [admin EXCEPT
                   !.flags = SelectSeq(calls[c].flags,
                                       LAMBDA f : f.key # calls[c].key)]
              /\ Returned(c, TRUE, ZeroFlag)

handleDeleteFlag(c) ==
    \/ handleDeleteFlag_Click(c)
    \/ handleDeleteFlag_Reply(c)

(***************************************************************************)
(* The main zone's FeatureFlagProvider and its useFeatureFlag hook.  The   *)
(* mount effect calls fetchFlags and starts a 10 s interval that calls it  *)
(* again; a fetch has no time limit, so calls can overlap and settle in    *)
(* any order.                                                              *)
(***************************************************************************)
MaxPolls == 3

\* Values of JavaScript expressions: undefined, a boolean, or a function
\* found on a prototype.
Undefined == [type |-> "undefined", value |-> ""]
Boolean(b) == [type |-> "boolean", value |-> IF b THEN "true" ELSE "false"]
Function(name) == [type |-> "function", value |-> name]

\* `{}`: an object with no property of its own, given as the function from
\* its own property names to their values.
EmptyObject == [k \in {} |-> FALSE]

\* Properties every object literal inherits from Object.prototype.
ObjectPrototype == {"constructor", "toString", "valueOf", "hasOwnProperty"}

\* obj[key]: the object's own property, else the inherited one, else
\* undefined.
GetProperty(obj, key) ==
    IF key \in DOMAIN obj THEN Boolean(obj[key])
    ELSE IF key \in ObjectPrototype THEN Function(key)
    ELSE Undefined

\* a ?? b
NullishCoalescing(a, b) == IF a.type \in {"undefined", "null"} THEN b ELSE a

\* const flagMap = {}; data.forEach(flag => { flagMap[flag.key] = flag.enabled })
FlagMap(data) ==
    [k \in { f.key : f \in Elements(data) } |->
        LET last == Max({ i \in 1..Len(data) : data[i].key = k })
        IN data[last].enabled]

\* The provider's state after its first render: the three useState values.
FeatureFlagProviderState ==
    [flags |-> EmptyObject, loading |-> TRUE, error |-> Null]

\* Arrays the backend can answer a poll with.
PollTables ==
    InitFlagTables \cup { {FeatureFlag(1, "k1", "n1", "d1", TRUE)} }

\* setInterval(fetchFlags, 10000) fires: fetchFlags runs up to its fetch,
\* setLoading(true) and the GET is sent.
setInterval ==
    /\ fetches + Len(polls) < MaxPolls
    /\ provider' = [provider EXCEPT !.loading = TRUE]
    /\ fetches' = fetches + 1
    /\ UNCHANGED <<polls, adminVars, backendVars>>

\* fetchFlags after its fetch: setFlags(flagMap); setError(null) / on a throw
\* setError(message) and the flags are left alone; finally setLoading(false).
fetchFlags ==
    /\ fetches > 0
    /\ fetches' = fetches - 1
    /\ UNCHANGED <<adminVars, backendVars>>
    /\ \E reply \in ListReplies(PollTables) :
         IF reply.threw
         THEN /\ provider' = [provider EXCEPT !.error = Message(reply.message),
                                              !.loading = FALSE]
              /\ polls' = Append(polls, [ok |-> FALSE, data |-> << >>])
         ELSE IF ~reply.ok
         THEN /\ provider' = [provider EXCEPT
                   !.error = Message(HttpErrorMessage(reply.status)),
                   !.loading = FALSE]
              /\ polls' = Append(polls, [ok |-> FALSE, data |-> << >>])
         ELSE /\ provider' = [provider EXCEPT !.flags = FlagMap(reply.json),
                                              !.error = Null,
                                              !.loading = FALSE]
              /\ polls' = Append(polls, [ok |-> TRUE, data |-> reply.json])

\* useFeatureFlag(key): flags[key] ?? false, on the provider's `flags`.
useFeatureFlag(key) ==
    NullishCoalescing(GetProperty(provider.flags, key), Boolean(FALSE))

(***************************************************************************)
(* Specification of the flag endpoints                                     *)
(***************************************************************************)
\* main(): the tables are what the datastore holds, the cache is empty and
\* no request has arrived.
Started(flagTable, userTable) ==
    /\ flags = flagTable
    /\ nextFlagId = Max({0} \cup { f.id : f \in flagTable }) + 1
    /\ flagCache = [k \in {} |-> ZeroFlag]
    /\ users = userTable
    /\ nextUserId = Max({0} \cup { u.id : u \in userTable }) + 1
    /\ pc = [p \in Procs |-> "idle"]
    /\ req = [p \in Procs |-> NoReq]
    /\ flag = [p \in Procs |-> ZeroFlag]
    /\ found = [p \in Procs |-> NoneFound]
    /\ seed = [p \in Procs |-> NoSeed]
    /\ started = 0
    /\ dbErrors = 0
    /\ zone = [p \in Procs |-> NoProbes]
    /\ admin = FeatureFlagManagement
    /\ calls = [c \in Procs |-> NoCall]
    /\ adminLog = << >>
    /\ provider = FeatureFlagProviderState
    /\ fetches = 1
    /\ polls = << >>
    /\ hist = << >>

Init == \E flagTable \in InitFlagTables : Started(flagTable, {})

Next ==
    \E p \in Procs :
        \/ getFeatureFlagHandler(p)
        \/ getFeatureFlagsHandler(p)
        \/ createFeatureFlagHandler(p)
        \/ updateFeatureFlagHandler(p)
        \/ deleteFeatureFlagHandler(p)

Spec == Init /\ [][Next]_vars

(***************************************************************************)
(* Specification of the user endpoints                                     *)
(***************************************************************************)
UserNext ==
    \E p \in Procs :
        \/ createUserHandler(p)
        \/ deleteUserHandler(p)
        \/ seedDatabaseHandler(p)

UserInit == \E userTable \in InitUserTables : Started({}, userTable)

UserSpec == UserInit /\ [][UserNext]_vars

(***************************************************************************)
(* Specifications of the zone status endpoint.  A zone may never answer;   *)
(* what the code adds is the client's timer, which fires when its time is  *)
(* up and the request is still open.                                       *)
(***************************************************************************)
ZoneInit == Started({}, {})

ZoneNext == \E p \in Procs : zonesStatusHandler(p)

ZoneSpec == ZoneInit /\ [][ZoneNext]_vars

ZoneLiveSpec ==
    /\ ZoneInit
    /\ [][ZoneNext]_vars
    /\ \A p \in Procs : WF_vars(checkZoneHealth_Timeout(p))

(***************************************************************************)
(* Specification of the admin component: it has mounted, its first fetch   *)
(* is on its way, then the user types, submits and clicks.                 *)
(***************************************************************************)
AdminInit == Started({}, {})

AdminNext ==
    \/ FeatureFlagManagement_fetchFlags
    \/ onChange
    \/ \E c \in Procs :
        \/ handleCreateFlag(c)
        \/ handleToggleFlag(c)
        \/ handleDeleteFlag(c)

AdminSpec == AdminInit /\ [][AdminNext]_vars

(***************************************************************************)
(* Specification of the provider: it has mounted and its first fetch is on *)
(* its way; the interval fires and fetches settle.                         *)
(***************************************************************************)
ProviderInit == Started({}, {})

ProviderNext ==
    \/ setInterval
    \/ fetchFlags

ProviderSpec == ProviderInit /\ [][ProviderNext]_vars

(***************************************************************************)
(* Reading the record of completed requests                                *)
(***************************************************************************)
Entries == { hist[i] : i \in 1..Len(hist) }

Quiescent == \A p \in Procs : pc[p] = "idle"

\* No other request was being served at any moment between a's arrival and
\* its return.
Alone(a) ==
    /\ \A c \in Entries : c = a \/ c.t1 < a.t0 \/ c.t0 > a.t1
    /\ \A p \in Procs : pc[p] # "idle" => req[p].t0 > a.t1

\* b arrived right after a returned, nothing arriving or returning between.
RightAfter(a, b) == b.t0 = a.t1 + 1

\* r may write a row whose key is, or becomes, key.
WritesKey(r, key) ==
    /\ r.op \in {"create", "update", "delete"}
    /\ \/ r.key = key
       \/ "key" \in r.body.fields /\ r.body.vals.key = key

\* The answer a GET /api/feature-flags/{key} arriving now gets while no write
\* runs: the cached record on a hit, else the row of the datastore.
NextGet(key) ==
    IF CacheHit(flagCache, key) THEN CacheLoad(flagCache, key)
    ELSE IF RowsByKey(flags, key) # {} THEN FirstByKey(flags, key)
    ELSE ZeroFlag

(***************************************************************************)
(* C1: once every in-flight request has completed, every cached record     *)
(* equals the datastore's record for its key (eventual consistency of the  *)
(* cache).                                                                 *)
(***************************************************************************)
C1_CacheConsistentWhenQuiescent ==
    Quiescent =>
        \A key \in DOMAIN flagCache :
            /\ RowsByKey(flags, key) # {}
            /\ flagCache[key] = FirstByKey(flags, key)

(***************************************************************************)
(* C2: after a PATCH of key X returned 200 and with no other write to X    *)
(* since the PATCH arrived, the next GET of X is answered with the values  *)
(* the PATCH supplied, never with the pre-update record.                   *)
(***************************************************************************)
C2_ReadYourWrite ==
    \A a \in Entries :
        ( /\ a.op = "update" /\ a.status = 200
          /\ \A c \in Entries : c # a /\ WritesKey(c, a.key) => c.t1 < a.t0
          /\ \A p \in Procs : pc[p] # "idle" => ~WritesKey(req[p], a.key) )
        => \A col \in a.body.fields : NextGet(a.key)[col] = a.body.vals[col]

(***************************************************************************)
(* C3 as claimed: whatever the body, a created flag is returned, stored    *)
(* and cached with enabled = false.                                        *)
(***************************************************************************)
C3_CreateForcesDisabled ==
    \A a \in Entries :
        a.op = "create" /\ a.status = 201 =>
            /\ a.flag.enabled = FALSE
            /\ \A f \in a.after.flags : f.id = a.flag.id => f.enabled = FALSE

(***************************************************************************)
(* C3 as amended: a created flag is returned with the enabled value of the *)
(* body (false when the body leaves it out); when no other request ran     *)
(* meanwhile that record is the stored row and the cached entry, and a GET *)
(* of the key right after the POST returns it.                             *)
(***************************************************************************)
C3_CreateKeepsSuppliedEnabled ==
    \A a \in Entries :
        a.op = "create" /\ a.status = 201 =>
            /\ a.flag.enabled = ("enabled" \in a.body.fields /\ a.body.vals.enabled)
            /\ a.flag.key = a.body.vals.key
            /\ Alone(a) =>
                /\ a.flag \in a.after.flags
                /\ CacheHit(a.after.cache, a.key)
                /\ CacheLoad(a.after.cache, a.key) = a.flag
            /\ \A b \in Entries :
                 b.op = "get" /\ b.key = a.key /\ RightAfter(a, b)
                 /\ Alone(a) /\ Alone(b)
                 => b.status = 200 /\ b.flag = a.flag

C3_Witness ==
    \E a, b \in Entries :
        /\ a.op = "create" /\ a.status = 201 /\ a.body.vals.enabled
        /\ b.op = "get" /\ b.key = a.key /\ RightAfter(a, b)
        /\ Alone(a) /\ Alone(b)
        /\ b.flag.enabled

(***************************************************************************)
(* C10: a PATCH that no other request overlaps changes, in the row of its  *)
(* key, the columns its body supplies and no others, and changes no other  *)
(* row; a GET of the key right after it returns the row so updated (for    *)
(* {enabled:true}: enabled true, name and description as before).          *)
(***************************************************************************)
C10_PatchChangesOnlySuppliedFields ==
    \A a \in Entries :
        a.op = "update" /\ a.status = 200 /\ Alone(a) =>
            LET old == FirstByKey(a.before.flags, a.key)
                rows == { f \in a.after.flags : f.id = old.id }
            IN
            /\ { f \in a.after.flags : f.id # old.id }
                 = { f \in a.before.flags : f.id # old.id }
            /\ Cardinality(rows) = 1
            /\ \A new \in rows : \A col \in FlagColumns :
                 new[col] = IF col \in a.body.fields THEN a.body.vals[col]
                            ELSE old[col]
            /\ \A b \in Entries :
                 b.op = "get" /\ b.key = a.key /\ RightAfter(a, b) /\ Alone(b)
                 => b.status = 200 /\ b.flag \in rows

C10_Witness ==
    \E a, b \in Entries :
        /\ a.op = "update" /\ a.status = 200 /\ Alone(a)
        /\ a.body.fields = {"enabled"} /\ a.body.vals.enabled
        /\ Cardinality(a.before.flags) = 2
        /\ ~FirstByKey(a.before.flags, a.key).enabled
        /\ b.op = "get" /\ b.key = a.key /\ RightAfter(a, b) /\ Alone(b)
        /\ b.flag.enabled /\ b.flag.name = "n1" /\ b.flag.description = "d1"

(***************************************************************************)
(* Reading the record of the user endpoints                                *)
(***************************************************************************)
Seeds == { a \in Entries : a.op = "seed" }

Emails(tbl) == { u.email : u \in tbl }

ErrorIndexes(a) == { a.errors[k].i : k \in 1..Len(a.errors) }

\* No statement of the seed request failed with a connection error.
NoDbError(a) == \A k \in 1..Len(a.errors) : a.errors[k].kind # "db"

Overlap(a, b) == a.t0 < b.t1 /\ b.t0 < a.t1

(***************************************************************************)
(* C4 as claimed: POST /api/seed responds 200 whenever a sample user was   *)
(* created or skipped, and 500 only when all 5 attempts gave an error.     *)
(***************************************************************************)
C4_FailsOnlyWhenAllFailed ==
    \A a \in Seeds :
        /\ a.created + a.skipped >= 1 => a.status = 200
        /\ a.status = 500 => a.errorCount = NumSampleUsers

(***************************************************************************)
(* C4 as amended: POST /api/seed responds 500 exactly when at least one    *)
(* attempt gave an error and no user was created, and 200 otherwise; users *)
(* skipped as already existing do not turn a 500 into a 200.               *)
(***************************************************************************)
C4_FailsWhenErrorsAndNoneCreated ==
    \A a \in Seeds :
        /\ a.status \in {200, 500}
        /\ a.status = 500 <=> (a.errorCount > 0 /\ a.created = 0)

C4_Witness ==
    \E a \in Seeds :
        a.status = 500 /\ a.skipped > 0 /\ a.errorCount < NumSampleUsers

(***************************************************************************)
(* C5: two overlapping POST /api/seed on a datastore without the sample    *)
(* emails: the request that loses an insert race is not answered 500, and  *)
(* one row per sample email exists afterwards.                             *)
(***************************************************************************)
C5_SeedRaceIsNotFatal ==
    \A a, b \in Seeds :
        ( /\ a.t0 < b.t0 /\ Overlap(a, b)
          /\ Emails(a.before) \cap SampleEmails = {}
          /\ NoDbError(a) /\ NoDbError(b)
          /\ \A c \in Entries : c \in {a, b} )
        => /\ a.status # 500 /\ b.status # 500
           /\ \A e \in SampleEmails :
                Cardinality({ u \in users : u.email = e }) = 1

(***************************************************************************)
(* C6: two POST /api/seed in a row, no other request meanwhile and every   *)
(* statement executing, on a datastore without the sample emails: the      *)
(* first reports created=5, skipped=0, the second created=0, skipped=5,    *)
(* and the second leaves the users as the first left them.                 *)
(***************************************************************************)
C6_SeedIdempotent ==
    \A a \in Seeds :
        ( /\ Alone(a) /\ NoDbError(a)
          /\ Emails(a.before) \cap SampleEmails = {} )
        => /\ a.created = NumSampleUsers /\ a.skipped = 0
           /\ a.status = 200
           /\ \A b \in Seeds :
                RightAfter(a, b) /\ Alone(b) /\ NoDbError(b)
                => /\ b.created = 0 /\ b.skipped = NumSampleUsers
                   /\ b.status = 200
                   /\ b.after = a.after

C6_Witness ==
    \E a, b \in Seeds :
        /\ Alone(a) /\ NoDbError(a)
        /\ Emails(a.before) \cap SampleEmails = {}
        /\ RightAfter(a, b) /\ Alone(b) /\ NoDbError(b)
        /\ b.skipped = NumSampleUsers
        /\ Cardinality(b.after) = NumSampleUsers

(***************************************************************************)
(* C7: in POST /api/seed a failing find-or-create adds an entry to errors  *)
(* and the loop goes on: the sample users are attempted one by one in      *)
(* order, each counted once as created, skipped or failed, and a user that *)
(* did not fail is stored when the request returns (no other request       *)
(* running meanwhile).                                                     *)
(***************************************************************************)
C7_SeedIsBestEffort ==
    /\ \A p \in Procs :
         pc[p] \in {"seed_find", "seed_create"} =>
            /\ seed[p].i \in 1..NumSampleUsers
            /\ seed[p].i - 1 = seed[p].createdCount + seed[p].skippedCount
                                 + Len(seed[p].errors)
    /\ \A a \in Seeds :
         /\ a.created + a.skipped + a.errorCount = NumSampleUsers
         /\ \A k \in 1..Len(a.errors) :
              /\ a.errors[k].i \in 1..NumSampleUsers
              /\ k > 1 => a.errors[k - 1].i < a.errors[k].i
         /\ Alone(a) =>
              \A i \in 1..NumSampleUsers :
                 i \notin ErrorIndexes(a) =>
                    \E u \in a.after : /\ u.email = sampleUsers[i].email
                                       /\ u.name = sampleUsers[i].name

C7_Witness ==
    \E a \in Seeds :
        \E i, j \in 1..NumSampleUsers :
            /\ i < j
            /\ i \in ErrorIndexes(a)
            /\ sampleUsers[j].email \notin Emails(a.before)
            /\ sampleUsers[j].email \in Emails(a.after)

(***************************************************************************)
(* C8: in every reachable state no two stored users share an email.        *)
(***************************************************************************)
C8_UniqueEmail ==
    \A u, v \in users : u.email = v.email => u = v

C8_Witness ==
    /\ \E a \in Seeds :
         \E k \in 1..Len(a.errors) : a.errors[k].kind = "duplicate"
    /\ Cardinality(users) >= NumSampleUsers

(***************************************************************************)
(* C9: POST /api/users with valid fields and an email that is already      *)
(* stored responds 500, creates no row and leaves the stored users, the    *)
(* first-created one among them, as they were.                             *)
(***************************************************************************)
C9_DuplicateCreateFails ==
    \A a \in Entries :
        ( /\ a.op = "createUser"
          /\ a.body.email # "" /\ a.body.name # ""
          /\ \E u \in a.before : u.email = a.body.email )
        => /\ a.status = 500
           /\ a.user = ZeroUser
           /\ a.after = a.before

C9_Witness ==
    \E a, b \in Entries :
        /\ a.op = "createUser" /\ a.status = 201
        /\ b.op = "createUser" /\ b.status = 500 /\ b.err = "duplicate"
        /\ a.t1 < b.t0
        /\ a.body.email = b.body.email
        /\ a.user \in b.after

(***************************************************************************)
(* Required fields                                                         *)
(***************************************************************************)
\* C11: in every reachable state no stored user has an empty email or an
\* empty name and no stored flag has an empty key or an empty name, whatever
\* POST /api/users, POST /api/feature-flags, PATCH /api/feature-flags/{key}
\* and POST /api/seed requests were served.
C11_RequiredFieldsStored ==
    /\ \A u \in users : u.email # "" /\ u.name # ""
    /\ \A f \in flags : f.key # "" /\ f.name # ""

(***************************************************************************)
(* Specification of the endpoints that validate a body: POST /api/users,   *)
(* POST /api/feature-flags and PATCH /api/feature-flags/{key}              *)
(***************************************************************************)
ValidationInit ==
    \E flagTable \in InitFlagTables, userTable \in InitUserTables :
        Started(flagTable, userTable)

ValidationNext ==
    \E p \in Procs :
        \/ createUserHandler(p)
        \/ createFeatureFlagHandler(p)
        \/ updateFeatureFlagHandler(p)

ValidationSpec == ValidationInit /\ [][ValidationNext]_vars

\* The body of request a is one the handler's validation rejects.
RejectedBody(a) ==
    \/ a.op = "createUser"
       /\ (~a.body.decoded \/ a.body.email = "" \/ a.body.name = "")
    \/ a.op = "create"
       /\ (~a.body.decoded \/ a.body.vals.key = "" \/ a.body.vals.name = "")
    \/ a.op = "update" /\ ~a.body.decoded

\* C12: a request rejected by validation makes no datastore call.  POST
\* /api/users with an undecodable body or an empty email or name, POST
\* /api/feature-flags with an undecodable body or an empty key or name, and
\* PATCH with an undecodable body (whether or not its key is stored) are
\* answered 400, never 404 or 500; the step that answers 400 is the step the
\* request arrives in, and it leaves the tables, their id sequences, the
\* flag cache and the count of failed statements as they were.
C12_RejectedBeforeDatastore ==
    /\ [](\A i \in 1..Len(hist) :
            /\ RejectedBody(hist[i]) <=> hist[i].status = 400
            /\ hist[i].status = 400 => hist[i].after = hist[i].before)
    /\ [][(Len(hist') > Len(hist) /\ hist'[Len(hist')].status = 400)
            => /\ started' = started + 1
               /\ UNCHANGED <<flags, nextFlagId, flagCache, users,
                               nextUserId, dbErrors>>]_vars

\* A PATCH with an undecodable body for a key that is not stored was answered
\* 400, and a POST /api/users without email was answered 400 while users
\* were stored.
C12_Witness ==
    \E i, j \in 1..Len(hist) :
        /\ hist[i].op = "update" /\ ~hist[i].body.decoded
        /\ hist[i].status = 400
        /\ RowsByKey(hist[i].before.flags, hist[i].key) = {}
        /\ hist[j].op = "createUser" /\ hist[j].body.email = ""
        /\ hist[j].status = 400 /\ hist[j].before # {}

(***************************************************************************)
(* Order of the datastore operation and the cache operation                *)
(***************************************************************************)
\* Positions of a handler at its flagCache.Store / flagCache.Delete.
CacheSteps ==
    {"get_store", "list_store", "create_store", "update_store",
     "delete_cache"}

WriteOps == {"create", "update", "delete"}

\* The step just taken appended a response to the record.
Responded == Len(hist') > Len(hist)

\* C13: for flag create, update and delete the cache is modified only after
\* the handler's datastore operation has succeeded, never before it.  The
\* cache changes only in a step of a handler standing at its Store/Delete;
\* a create reaches its Store only from an executed INSERT of its row, a
\* PATCH reaches its Store only through a found row and an UPDATE without
\* error, a DELETE reaches its cache Delete only from a DELETE that removed
\* rows; and a create, update or delete answered with an error status
\* (duplicate key, key not found, update error, zero rows, connection error)
\* is answered from a position before any cache operation, in a step that
\* leaves the cache unchanged.
C13_CacheAfterDatastore ==
    [][ /\ flagCache' # flagCache =>
              \E p \in Procs :
                  /\ pc[p] \in CacheSteps
                  /\ <<pc'[p], found'[p]>> # <<pc[p], found[p]>>
        /\ \A p \in Procs :
              /\ (pc'[p] = "create_store" /\ pc[p] # "create_store") =>
                    /\ pc[p] = "idle" /\ dbErrors' = dbErrors
                    /\ flag'[p] \in flags' \ flags
              /\ (pc'[p] = "update_updates" /\ pc[p] # "update_updates") =>
                    /\ pc[p] = "idle" /\ dbErrors' = dbErrors
                    /\ flag'[p] \in flags /\ flag'[p].key = req'[p].key
              /\ (pc'[p] = "update_reload" /\ pc[p] # "update_reload") =>
                    /\ pc[p] = "update_updates" /\ dbErrors' = dbErrors
              /\ (pc'[p] = "update_store" /\ pc[p] # "update_store") =>
                    pc[p] = "update_reload"
              /\ (pc'[p] = "delete_cache" /\ pc[p] # "delete_cache") =>
                    /\ pc[p] = "idle" /\ dbErrors' = dbErrors
                    /\ flags' # flags
                    /\ RowsByKey(flags', req'[p].key) = {}
        /\ (/\ Responded
            /\ hist'[Len(hist')].op \in WriteOps
            /\ hist'[Len(hist')].status \notin {200, 201}) =>
              /\ flagCache' = flagCache
              /\ \E p \in Procs :
                    /\ pc[p] \in {"idle", "update_updates"}
                    /\ req'[p] = NoReq
                    /\ (pc[p] = "idle" => req[p] = NoReq)
                    /\ (pc[p] # "idle" => req[p].op = "update")
      ]_vars

\* A create, update or delete of a cached key failed (duplicate key, update
\* error or connection error) and the cache entry is as it was.
C13_Witness ==
    \E i \in 1..Len(hist) :
        /\ hist[i].op \in WriteOps
        /\ hist[i].status = 500
        /\ hist[i].key \in DOMAIN hist[i].before.cache
        /\ hist[i].after.cache = hist[i].before.cache

(***************************************************************************)
(* GET /api/feature-flags/{key} and GET /api/feature-flags                 *)
(***************************************************************************)
\* The response the step just taken appended.
Response == hist'[Len(hist')]

\* C14: GET /api/feature-flags/{key} looks in the cache first.  On a hit it
\* answers 200 with the cached record in the step it arrives in, with no
\* statement (so never 404 or 500) and no change of table or cache.  On a
\* miss it queries the datastore in a later step; a row found is stored in
\* the cache under the key and is the record of the 200 response; when no
\* row is found the answer is 404 and the step leaves the cache unchanged.
C14_CacheFirstLookup ==
    /\ [](\A i \in 1..Len(hist) :
            LET a == hist[i] IN
            a.op = "get" =>
               IF a.key \in DOMAIN a.before.cache
               THEN /\ a.status = 200
                    /\ a.flag = a.before.cache[a.key]
                    /\ a.after = a.before
               ELSE /\ a.status \in {200, 404, 500}
                    /\ a.status = 200 =>
                          /\ a.key \in DOMAIN a.after.cache
                          /\ a.after.cache[a.key] = a.flag
                          /\ a.flag.key = a.key
                    /\ a.status = 500 => a.err = "db")
    /\ [][ /\ (Responded /\ Response.op = "get") =>
                 /\ (Response.key \in DOMAIN Response.before.cache) <=>
                        (started' = started + 1)
                 /\ (Response.key \in DOMAIN Response.before.cache) =>
                        UNCHANGED <<flags, flagCache, dbErrors>>
                 /\ Response.status = 404 =>
                        /\ flagCache' = flagCache
                        /\ RowsByKey(flags, Response.key) = {}
           /\ \A p \in Procs :
                 (pc'[p] = "get_store" /\ pc[p] # "get_store") =>
                    /\ pc[p] = "get_query"
                    /\ flag'[p] \in RowsByKey(flags, req[p].key)
         ]_vars

\* A GET missed the cache and stored the row; the next GET of the key hit
\* the cache and returned that record.
C14_Witness ==
    \E i, j \in 1..Len(hist) :
        /\ i < j
        /\ hist[i].op = "get" /\ hist[j].op = "get"
        /\ hist[i].key = hist[j].key
        /\ hist[i].key \notin DOMAIN hist[i].before.cache
        /\ hist[i].status = 200
        /\ hist[j].key \in DOMAIN hist[j].before.cache
        /\ hist[j].status = 200 /\ hist[j].flag = hist[i].flag

\* C15: GET /api/feature-flags queries the datastore whatever the cache
\* holds: its only answers are 200 and, on a connection error, 500; the 200
\* response is exactly the set of rows the table held when the request
\* arrived and was queried; and when no other request runs meanwhile, after
\* the response every returned flag is the cache entry of its key.
C15_ListReadsDatastore ==
    \A i \in 1..Len(hist) :
        LET a == hist[i] IN
        a.op = "list" =>
           /\ a.status \in {200, 500}
           /\ a.status = 500 => a.err = "db"
           /\ a.status = 200 =>
                 /\ a.flags = a.before.flags
                 /\ Alone(a) =>
                       /\ a.after.flags = a.before.flags
                       /\ \A f \in a.flags :
                             /\ f.key \in DOMAIN a.after.cache
                             /\ a.after.cache[f.key] = f

\* A list was answered while the cache held one of the two stored flags:
\* the response has both rows and both are cached afterwards.
C15_Witness ==
    \E i \in 1..Len(hist) :
        /\ hist[i].op = "list" /\ hist[i].status = 200
        /\ Alone(hist[i])
        /\ DOMAIN hist[i].before.cache # {}
        /\ \E f \in hist[i].flags : f.key \notin DOMAIN hist[i].before.cache
        /\ \A f \in hist[i].flags : f.key \in DOMAIN hist[i].after.cache

(***************************************************************************)
(* DELETE /api/users/{id}                                                  *)
(***************************************************************************)
\* C16: unless the statement fails with a connection error, DELETE
\* /api/users/{id} for an id that is not stored answers 404 and removes no
\* row; for a stored id it answers 200 and removes exactly that user; and a
\* later DELETE of the same id answers 404 (200, then 404).
C16_DeleteUserOnce ==
    /\ \A i \in 1..Len(hist) :
          LET a == hist[i] IN
          (a.op = "deleteUser" /\ a.err # "db") =>
             IF \E u \in a.before : u.id = a.id
             THEN /\ a.status = 200
                  /\ a.after = { u \in a.before : u.id # a.id }
                  /\ Cardinality(a.before \ a.after) = 1
             ELSE /\ a.status = 404
                  /\ a.after = a.before
    /\ \A i, j \in 1..Len(hist) :
          (/\ i < j
           /\ hist[i].op = "deleteUser" /\ hist[j].op = "deleteUser"
           /\ hist[i].id = hist[j].id
           /\ hist[i].status = 200 /\ hist[j].err # "db")
          => hist[j].status = 404

\* A stored user was deleted with 200 while others were stored, and the
\* repeated DELETE of the id was answered 404.
C16_Witness ==
    \E i, j \in 1..Len(hist) :
        /\ i < j
        /\ hist[i].op = "deleteUser" /\ hist[j].op = "deleteUser"
        /\ hist[i].id = hist[j].id
        /\ hist[i].status = 200 /\ hist[j].status = 404
        /\ Cardinality(hist[i].before) > 1
        /\ hist[j].after = hist[i].after

(***************************************************************************)
(* GET /api/zones/status                                                   *)
(***************************************************************************)
\* Reading a message: the number its decimal digits spell, and whether it
\* has the pieces of part next to one another.
DigitValue(c) == CHOOSE d \in 0..9 : Digit(d) = c

RECURSIVE Atoi(_)
Atoi(digits) ==
    IF digits = << >> THEN 0
    ELSE Atoi(SubSeq(digits, 1, Len(digits) - 1)) * 10
         + DigitValue(digits[Len(digits)])

Contains(message, part) ==
    \E i \in 1..(Len(message) - Len(part) + 1) :
        SubSeq(message, i, i + Len(part) - 1) = part

\* C17: checkZoneHealth classifies each probe outcome by itself.  A
\* transport failure (refused, no such host, timeout) gives unhealthy; a 200
\* response gives healthy with the message "Zone is responding"; a response
\* with another status code gives degraded with the message "HTTP " followed
\* by the decimal digits of that code (503: the message contains "503").
\* In the response each zone carries its own name and URL, and a zone's
\* entry is the same in any two responses in which its probe had the same
\* outcome, whatever the other zone's probe did.
C17_ProbeClassification ==
    /\ \A i \in 1..Len(hist), k \in 1..Len(Zones) :
          LET o == hist[i].probes[k]
              z == hist[i].body.zones[k]
          IN
          /\ z.name = Zones[k].name /\ z.url = Zones[k].url
          /\ o.err # "" => z.status = "unhealthy"
          /\ (o.err = "" /\ o.code = 200) =>
                /\ z.status = "healthy"
                /\ z.message = <<"Zone is responding">>
          /\ (o.err = "" /\ o.code # 200) =>
                /\ z.status = "degraded"
                /\ z.message[1] = "HTTP "
                /\ Atoi(Tail(z.message)) = o.code
          /\ (o.err = "" /\ o.code = 503) =>
                Contains(z.message, <<"5", "0", "3">>)
    /\ \A i, j \in 1..Len(hist), k \in 1..Len(Zones) :
          hist[i].probes[k] = hist[j].probes[k] =>
             hist[i].body.zones[k] = hist[j].body.zones[k]

\* zone-main answered 503 in two requests, zone-admin was unreachable in one
\* and answered 200 in the other: degraded with unhealthy, degraded with
\* healthy.
C17_Witness ==
    \E i, j \in 1..Len(hist) :
        /\ hist[i].probes[1] = HttpResponse(503)
        /\ hist[j].probes[1] = HttpResponse(503)
        /\ hist[i].probes[2].err # ""
        /\ hist[j].probes[2] = HttpResponse(200)
        /\ hist[i].body.zones[1].status = "degraded"
        /\ hist[i].body.zones[2].status = "unhealthy"
        /\ hist[j].body.zones[2].status = "healthy"

\* C18: whatever the two probes return, both zones unreachable included,
\* GET /api/zones/status answers 200 with the envelope status "ok" and a
\* zones list of exactly one entry per configured zone, zone-main and then
\* zone-admin; a failed probe is an entry of the list.
C18_EnvelopeAlwaysOk ==
    \A i \in 1..Len(hist) :
        hist[i].op = "zones" =>
           /\ hist[i].status = 200
           /\ hist[i].body.status = "ok"
           /\ Len(hist[i].body.zones) = Len(Zones)
           /\ \A k \in 1..Len(Zones) :
                 /\ hist[i].body.zones[k].name = Zones[k].name
                 /\ hist[i].probes[k].err # "" =>
                       hist[i].body.zones[k].status = "unhealthy"

\* Both zones were unreachable, one refusing and one timing out, and the
\* response lists both as unhealthy.
C18_Witness ==
    \E i \in 1..Len(hist) :
        /\ hist[i].op = "zones"
        /\ hist[i].probes[1] = TransportError("connection refused")
        /\ hist[i].probes[2] = TimeoutError
        /\ hist[i].body.zones[1].status = "unhealthy"
        /\ hist[i].body.zones[2].status = "unhealthy"

\* C19: every GET /api/zones/status request eventually responds, also when
\* the zones never answer: each probe ends with an outcome of the network or
\* with the timeout of its own client, after the probe of zone-main (however
\* it ended) the probe of zone-admin is issued, and after that one the
\* response is written.
C19_ZonesStatusResponds ==
    /\ \A n \in 1..MaxZoneReqs : (started >= n) ~> (Len(hist) >= n)
    /\ \A p \in Procs :
          /\ (pc[p] = "zone_probe" /\ Len(zone[p]) = 0)
                ~> (pc[p] = "zone_probe" /\ Len(zone[p]) = 1)
          /\ (pc[p] = "zone_probe" /\ Len(zone[p]) = 1
                  /\ zone[p][1].outcome.err # "")
                ~> (pc[p] = "idle")

\* The probe of zone-main timed out and zone-admin then answered 200.
C19_Witness ==
    \E i \in 1..Len(hist) :
        /\ hist[i].op = "zones"
        /\ hist[i].probes[1] = TimeoutError
        /\ hist[i].probes[2] = HttpResponse(200)
        /\ hist[i].body.zones[2].status = "healthy"

(***************************************************************************)
(* Unique flag keys                                                        *)
(***************************************************************************)
\* C20: in every reachable state no two stored flags share a key, under any
\* interleaving of the flag requests, PATCH bodies with a `key` field
\* included.  A POST whose key is stored when its INSERT runs fails with 500,
\* and the step in which a POST or a PATCH fails on the key leaves the table
\* (so the flag that holds the key) and the cache unchanged.
C20_UniqueFlagKey ==
    /\ [](/\ \A f, g \in flags : (f.key = g.key \/ f.id = g.id) => f = g
          /\ \A i \in 1..Len(hist) :
                LET a == hist[i] IN
                /\ (/\ a.op = "create" /\ a.status # 400 /\ a.err # "db"
                    /\ RowsByKey(a.before.flags, a.key) # {})
                   => a.status = 500 /\ a.err = "duplicate"
                /\ (a.op = "create" /\ a.err = "duplicate")
                   => a.after = a.before)
    /\ [][(Responded /\ Response.err = "duplicate") =>
             /\ flags' = flags /\ flagCache' = flagCache
             /\ Response.status = 500
             /\ \E f \in flags' :
                   f.key = IF Response.op = "create" THEN Response.key
                           ELSE Response.body.vals.key
         ]_vars

\* A PATCH that would have given k1 the key of k2, and a POST of a stored
\* key, both failed and both flags are stored as before.
C20_Witness ==
    \E i, j \in 1..Len(hist) :
        /\ hist[i].op = "update" /\ hist[i].err = "duplicate"
        /\ "key" \in hist[i].body.fields
        /\ hist[j].op = "create" /\ hist[j].err = "duplicate"
        /\ hist[j].after.flags = hist[i].before.flags
        /\ Cardinality(flags) = 2

(***************************************************************************)
(* Stored users                                                            *)
(***************************************************************************)
\* C21: a stored user is never updated in place: a user that is still
\* stored when a request returns has the id, email and name it had when the
\* request arrived; and a POST /api/seed that no request overlaps and no
\* connection error hits leaves the row of every sample email that was
\* already stored untouched, whatever name it is stored with, and counts it
\* as skipped.
C21_SeedSkipsStoredEmails ==
    /\ \A a \in Entries :
          \A u \in a.before : (\E v \in a.after : v.id = u.id) => u \in a.after
    /\ \A a \in Seeds :
          (Alone(a) /\ NoDbError(a)) =>
             /\ a.before \subseteq a.after
             /\ a.skipped = Cardinality(SampleEmails \cap Emails(a.before))
             /\ a.errors = << >>

(***************************************************************************)
(* PATCH of a key that is not stored                                       *)
(***************************************************************************)
\* C22: unless its lookup fails with a connection error, a PATCH
\* /api/feature-flags/{key} with a decodable body for a key the datastore
\* does not hold is answered 404, in the step of its lookup, and leaves the
\* table and the flag cache as they were, whether or not the cache holds an
\* entry under that key.
C22_PatchUnknownKey ==
    /\ [](\A i \in 1..Len(hist) :
            LET a == hist[i] IN
            (/\ a.op = "update" /\ a.body.decoded /\ a.err # "db"
             /\ RowsByKey(a.before.flags, a.key) = {})
            => a.status = 404 /\ a.after = a.before)
    /\ [][(Responded /\ Response.op = "update" /\ Response.status = 404) =>
             /\ started' = started + 1
             /\ RowsByKey(flags, Response.key) = {}
             /\ UNCHANGED <<flags, nextFlagId, flagCache>>
         ]_vars

\* A PATCH of a key that no row has was answered 404 while the cache held an
\* entry under that key, and the entry is still there.
C22_Witness ==
    \E i \in 1..Len(hist) :
        /\ hist[i].op = "update" /\ hist[i].status = 404
        /\ hist[i].key \in DOMAIN hist[i].before.cache
        /\ hist[i].after.cache = hist[i].before.cache
        /\ flagCache = hist[i].before.cache

(***************************************************************************)
(* GET after DELETE                                                        *)
(***************************************************************************)
\* r may give a row the key: a POST of the key or a PATCH that renames to it.
CreatesKey(r, key) ==
    \/ r.op = "create" /\ r.key = key
    \/ r.op = "update" /\ "key" \in r.body.fields /\ r.body.vals.key = key

\* C23: after DELETE /api/feature-flags/{k} returned 200, and with every
\* request that may create a flag of key k having returned before the DELETE
\* arrived, a GET of k that starts now is answered 404: the cache has no
\* entry under k and the table no row of key k, whatever GET, list or PATCH
\* requests were in flight while the DELETE ran.
C23_DeletedFlagNotServed ==
    \A i \in 1..Len(hist) :
        LET a == hist[i] IN
        (/\ a.op = "delete" /\ a.status = 200
         /\ \A j \in 1..Len(hist) :
               CreatesKey(hist[j], a.key) => hist[j].t1 < a.t0
         /\ \A p \in Procs : pc[p] # "idle" => ~CreatesKey(req[p], a.key))
        => /\ ~CacheHit(flagCache, a.key)
           /\ RowsByKey(flags, a.key) = {}

(***************************************************************************)
(* What the cache holds                                                    *)
(***************************************************************************)
\* The answer of a service without cache to GET /api/feature-flags/{key} on
\* table tbl: the row of the key, or 404.
Direct(tbl, key) ==
    IF RowsByKey(tbl, key) # {}
    THEN [status |-> 200, flag |-> FirstByKey(tbl, key)]
    ELSE [status |-> 404, flag |-> ZeroFlag]

\* C24: the cache holds no exclusive data.  In an execution whose requests
\* do not overlap, a GET /api/feature-flags/{key} that no connection error
\* hits is answered as a service reading the datastore directly would
\* answer on the table the GET found: 200 with the row of the key, or 404.
\* (The other flag endpoints never read the cache.)
C24_CacheHoldsNoExclusiveData ==
    (\A i \in 1..Len(hist) : Alone(hist[i])) =>
        \A i \in 1..Len(hist) :
            LET b == hist[i] IN
            (b.op = "get" /\ b.err # "db") =>
               /\ b.status = Direct(b.before.flags, b.key).status
               /\ b.flag = Direct(b.before.flags, b.key).flag

\* C25: in every reachable state the record cached under key k has the key
\* field k, whatever list, GET, POST, PATCH and DELETE requests were served.
C25_CacheEntryKeyMatches ==
    \A k \in DOMAIN flagCache : flagCache[k].key = k

(***************************************************************************)
(* The counts of a seed response                                           *)
(***************************************************************************)
\* C26: in every POST /api/seed response totalUsers is the number of sample
\* users (5), errorCount is the length of the errors list, the errors are of
\* different sample users, and created + skipped + errorCount = totalUsers,
\* whatever the table held and whatever requests ran at the same time.
C26_SeedCountsAddUp ==
    \A i \in 1..Len(hist) :
        LET a == hist[i] IN
        a.op = "seed" =>
           /\ a.totalUsers = NumSampleUsers
           /\ a.errorCount = Len(a.errors)
           /\ Cardinality(ErrorIndexes(a)) = Len(a.errors)
           /\ a.created >= 0 /\ a.skipped >= 0
           /\ a.created + a.skipped + a.errorCount = a.totalUsers

\* A seed that another request overlapped created a user, skipped users and
\* recorded an error.
C26_Witness ==
    \E i \in 1..Len(hist) :
        /\ hist[i].op = "seed"
        /\ hist[i].created > 0 /\ hist[i].skipped > 0
        /\ hist[i].errorCount > 0
        /\ ~Alone(hist[i])

(***************************************************************************)
(* Overlapping PATCH requests                                              *)
(***************************************************************************)
\* C27: two overlapping PATCH requests on the same flag whose bodies supply
\* disjoint sets of columns, `key` not among them, both take effect in the
\* datastore under every interleaving: once both have returned 200, and with
\* no other write of that key, the stored flag has every value either body
\* supplied.
C27_DisjointPatchesBothApply ==
    \A i, j \in 1..Len(hist) :
        LET a == hist[i]
            b == hist[j]
        IN
        (/\ i # j
         /\ a.op = "update" /\ b.op = "update" /\ a.key = b.key
         /\ a.status = 200 /\ b.status = 200
         /\ Overlap(a, b)
         /\ a.body.fields \cap b.body.fields = {}
         /\ "key" \notin a.body.fields \cup b.body.fields
         /\ \A k \in 1..Len(hist) :
               k \in {i, j} \/ ~WritesKey(hist[k], a.key)
         /\ \A p \in Procs : pc[p] # "idle" => ~WritesKey(req[p], a.key))
        => /\ Cardinality(RowsByKey(flags, a.key)) = 1
           /\ \A f \in RowsByKey(flags, a.key) :
                 /\ \A col \in a.body.fields : f[col] = a.body.vals[col]
                 /\ \A col \in b.body.fields : f[col] = b.body.vals[col]

\* PATCH {enabled:true} and PATCH {name:n2} of a disabled flag named n1
\* overlapped, both returned 200, and the stored flag is enabled and named
\* n2.
C27_Witness ==
    \E i, j \in 1..Len(hist) :
        /\ hist[i].op = "update" /\ hist[j].op = "update"
        /\ hist[i].key = hist[j].key
        /\ hist[i].status = 200 /\ hist[j].status = 200
        /\ Overlap(hist[i], hist[j])
        /\ hist[i].body.fields = {"enabled"} /\ hist[i].body.vals.enabled
        /\ hist[j].body.fields = {"name"} /\ hist[j].body.vals.name = "n2"
        /\ \E f \in hist[i].before.flags :
              f.key = hist[i].key /\ ~f.enabled /\ f.name = "n1"
        /\ \E f \in flags : f.key = hist[i].key /\ f.enabled /\ f.name = "n2"

(***************************************************************************)
(* The admin component's list                                              *)
(***************************************************************************)
\* Nothing of the component is waiting for the backend, and every create,
\* toggle and delete it started was answered with success.
AdminSettled ==
    /\ ~admin.loading
    /\ \A c \in Procs : calls[c] = NoCall
    /\ \A i \in 1..Len(adminLog) : adminLog[i].ok

\* C28: once every create, toggle and delete the component started has
\* completed successfully, its list reflects all of their results, also when
\* several were in flight together: for a key only one of them was about, a
\* toggled flag is listed as the record its PATCH returned, a created flag is
\* listed, a deleted flag is not.
C28_ListReflectsAllResults ==
    AdminSettled =>
        \A i \in 1..Len(adminLog) :
            LET e == adminLog[i]
                listed == { f \in Elements(admin.flags) : f.key = e.key }
            IN
            (\A j \in 1..Len(adminLog) : j # i => adminLog[j].key # e.key)
            => /\ e.op = "toggle" => listed = {e.flag}
               /\ e.op = "create" => e.flag \in listed
               /\ e.op = "delete" => listed = {}

(***************************************************************************)
(* The provider's flag map                                                 *)
(***************************************************************************)
\* The map of the last fetch that succeeded, empty when none has.
LastFetched ==
    LET oks == { i \in 1..Len(polls) : polls[i].ok }
    IN IF oks = {} THEN EmptyObject ELSE FlagMap(polls[Max(oks)].data)

\* Keys a page can ask useFeatureFlag for.
HookKeys == Keys \cup {"k3", "constructor"}

\* C29: useFeatureFlag(key) returns false whenever key is not in the last
\* successfully fetched flag map (no fetch has completed, the flag does not
\* exist, or every fetch failed); a failed poll sets the error and leaves the
\* flag map as it was, and a successful poll replaces the map and clears the
\* error.
C29_AbsentFlagIsFalse ==
    /\ [](\A key \in HookKeys :
            key \notin DOMAIN LastFetched
            => useFeatureFlag(key) = Boolean(FALSE))
    /\ [][Len(polls') > Len(polls) =>
            LET o == polls'[Len(polls')]
            IN IF o.ok
               THEN /\ provider'.flags = FlagMap(o.data)
                    /\ provider'.error = Null
               ELSE /\ provider'.flags = provider.flags
                    /\ provider'.error # Null]_vars
====
